---- MODULE Spec2Model ----
(***************************************************************************)
(* gouse: toggling of 'declared and not used' build errors (core.go).      *)
(*                                                                         *)
(* Text is modelled as a sequence of tokens.  A token is one byte of the   *)
(* source, except for the few fixed multi-byte texts that the program      *)
(* only ever treats as a unit:                                             *)
(*   "T"    the comment  /* TODO: gouse */  (fakeUsageSuffix without its   *)
(*          leading space, which stays a separate " " token because the    *)
(*          regexps' \s* can reach it)                                     *)
(*   "é"    one valid multi-byte rune (not a word character for regexp)    *)
(*   "xFF"  one byte that is not valid UTF-8                               *)
(*   "FFFD" the replacement rune U+FFFD, as its three bytes                *)
(* and, in build output only:                                              *)
(*   "P1".."P5"  the text  .go:<n>:<col>:<space>  with line field n        *)
(*   "PBIG"      the same with a line field too large for an int           *)
(*   "U"         notUsedErrorRegexpSuffix,  "I" noProviderErrorRegexpSuffix*)
(*   "S"         the text of some other diagnostic (e.g. a syntax error)   *)
(***************************************************************************)
EXTENDS Integers, Sequences, FiniteSets, TLC

\* ------------------------------------------------------------------ bounds
MaxLines == 2
MaxDiags == 2
MaxChunks == 4
MaxOutLen == 5
MaxPaths == 2
MaxProcs == 2

\* --------------------------------------------------------------- constants
fakeUsageSuffix == <<" ", "T">>
fakeUsagePrefix == <<";", " ", "_", " ", "=">>
commentPrefix == <<"/", "/", " ">>
noProviderErrorRegexpSuffix == "I"
notUsedErrorRegexpSuffix == "U"
nameIndex == 1
lineNumIndex == 1

NL == "\n"

\* regexp classes of Go's RE2 syntax: \s is [\t\n\f\r ], \w is [0-9A-Za-z_]
IsSpace(c) == c \in {" ", "\t", "\n"}
IsWord(c) == c \in {"v", "w", "_"}

\* ------------------------------------------------------ bytes.Split / Join
\* index of the first sep at or after i, or Len(s)+1
RECURSIVE IndexFrom(_, _, _)
IndexFrom(s, sep, i) ==
    IF i > Len(s) THEN Len(s) + 1
    ELSE IF s[i] = sep THEN i
    ELSE IndexFrom(s, sep, i + 1)

\* bytes.Split(s, sep) / strings.Split(s, sep) for a one-token separator:
\* always at least one piece, a trailing separator gives a trailing empty piece
RECURSIVE SplitFrom(_, _, _)
SplitFrom(s, sep, i) ==
    LET j == IndexFrom(s, sep, i)
    IN  IF j > Len(s) THEN << SubSeq(s, i, Len(s)) >>
        ELSE << SubSeq(s, i, j - 1) >> \o SplitFrom(s, sep, j + 1)

\* Split as a line scanner would do it: no empty piece after a final sep
SplitNoLastEmpty(s, sep) ==
    LET ps == SplitFrom(s, sep, 1)
    IN  IF Len(ps) > 1 /\ ps[Len(ps)] = << >> THEN SubSeq(ps, 1, Len(ps) - 1) ELSE ps

Split(s, sep) == SplitFrom(s, sep, 1)

\* bytes.Join(ls, sep)
RECURSIVE Join(_, _)
Join(ls, sep) ==
    IF Len(ls) = 0 THEN << >>
    ELSE IF Len(ls) = 1 THEN ls[1]
    ELSE ls[1] \o << sep >> \o Join(Tail(ls), sep)

\* whether the literal lit occurs in s at index i
IsAt(s, i, lit) ==
    /\ i >= 1
    /\ i + Len(lit) - 1 <= Len(s)
    /\ \A k \in 1..Len(lit) : s[i + k - 1] = lit[k]

\* ------------------------------------------------------- regexp fakeUsage
\* the pattern with a "." that also matches a line feed
fakeUsageEndAtAcrossLines(s, i) ==
    IF ~IsAt(s, i, fakeUsagePrefix) THEN 0
    ELSE LET from == i + Len(fakeUsagePrefix)
             ends == { j \in from..Len(s) : IsAt(s, j, fakeUsageSuffix) }
         IN  IF ends = {} THEN 0
             ELSE (CHOOSE j \in ends : \A k \in ends : k <= j) + 1

\* fakeUsagePrefix + ".*" + escapedFakeUsageSuffix, matched at index i:
\* the index of the last token of the match, or 0.  "." does not match a
\* line feed and ".*" is greedy, so the match runs to the last suffix that
\* the line holds after the prefix.
fakeUsageEndAt(s, i) ==
    IF ~IsAt(s, i, fakeUsagePrefix) THEN 0
    ELSE LET from == i + Len(fakeUsagePrefix)
             eol == IndexFrom(s, NL, from)
             ends == { j \in from..(eol - 1) : IsAt(s, j, fakeUsageSuffix)
                                              /\ j + 1 <= eol - 1 }
         IN  IF ends = {} THEN 0
             ELSE (CHOOSE j \in ends : \A k \in ends : k <= j) + 1

\* ------------------------------------------------ regexp fakeUsageAfterGofmt
RECURSIVE SkipSpace(_, _)
SkipSpace(s, i) ==
    IF i <= Len(s) /\ IsSpace(s[i]) THEN SkipSpace(s, i + 1) ELSE i

RECURSIVE SkipWord(_, _)
SkipWord(s, i) ==
    IF i <= Len(s) /\ IsWord(s[i]) THEN SkipWord(s, i + 1) ELSE i

\* the pattern without its leading \s*
fakeUsageAfterGofmtEndAtNoLeadingSpace(s, i) ==
    LET b == SkipSpace(s, i + 1)
        c == SkipWord(s, b + 2)
        d == SkipSpace(s, c)
    IN  IF /\ i <= Len(s) /\ s[i] = "_"
           /\ b <= Len(s) /\ s[b] = "="
           /\ b + 1 <= Len(s) /\ s[b + 1] = " "
           /\ d > c /\ s[d - 1] = " "
           /\ d <= Len(s) /\ s[d] = "T"
        THEN d
        ELSE 0

\* `\s*_\s*= \w*\s*` + escapedFakeUsageSuffix, matched at index i: the index
\* of the last token of the match, or 0.  The trailing \s* gives back one
\* blank to the suffix's leading space, so the white space before the
\* comment must end in a blank.
fakeUsageAfterGofmtEndAt(s, i) ==
    LET a == SkipSpace(s, i)
        b == SkipSpace(s, a + 1)
        c == SkipWord(s, b + 2)
        d == SkipSpace(s, c)
    IN  IF /\ a <= Len(s) /\ s[a] = "_"
           /\ b <= Len(s) /\ s[b] = "="
           /\ b + 1 <= Len(s) /\ s[b + 1] = " "
           /\ d > c /\ s[d - 1] = " "
           /\ d <= Len(s) /\ s[d] = "T"
        THEN d
        ELSE 0


\* first index at or after i where fakeUsage matches, or 0
RECURSIVE fakeUsageFind(_, _)
fakeUsageFind(s, i) ==
    IF i > Len(s) THEN 0
    ELSE IF fakeUsageEndAt(s, i) # 0 THEN i
    ELSE fakeUsageFind(s, i + 1)

\* fakeUsage.Match(code)
fakeUsageMatch(code) == fakeUsageFind(code, 1) # 0

\* fakeUsage.ReplaceAll(code, "") from index i on: the successive leftmost
\* matches, none overlapping an earlier one, are deleted
RECURSIVE fakeUsageReplaceFrom(_, _)
fakeUsageReplaceFrom(s, i) ==
    LET m == fakeUsageFind(s, i)
    IN  IF m = 0 THEN SubSeq(s, i, Len(s))
        ELSE SubSeq(s, i, m - 1) \o fakeUsageReplaceFrom(s, fakeUsageEndAt(s, m) + 1)

fakeUsageReplaceAll(code) == fakeUsageReplaceFrom(code, 1)

RECURSIVE fakeUsageAfterGofmtFind(_, _)
fakeUsageAfterGofmtFind(s, i) ==
    IF i > Len(s) THEN 0
    ELSE IF fakeUsageAfterGofmtEndAt(s, i) # 0 THEN i
    ELSE fakeUsageAfterGofmtFind(s, i + 1)

\* fakeUsageAfterGofmt.Match(code)
fakeUsageAfterGofmtMatch(code) == fakeUsageAfterGofmtFind(code, 1) # 0

RECURSIVE fakeUsageAfterGofmtReplaceFrom(_, _)
fakeUsageAfterGofmtReplaceFrom(s, i) ==
    LET m == fakeUsageAfterGofmtFind(s, i)
    IN  IF m = 0 THEN SubSeq(s, i, Len(s))
        ELSE SubSeq(s, i, m - 1)
             \o fakeUsageAfterGofmtReplaceFrom(s, fakeUsageAfterGofmtEndAt(s, m) + 1)

fakeUsageAfterGofmtReplaceAll(code) == fakeUsageAfterGofmtReplaceFrom(code, 1)

\* the two patterns tried in the other order
removeFakeUsagesGofmtFirst(code) ==
    IF fakeUsageAfterGofmtMatch(code)
    THEN [form |-> "gofmt", code |-> fakeUsageAfterGofmtReplaceAll(code)]
    ELSE IF fakeUsageMatch(code)
    THEN [form |-> "canonical", code |-> fakeUsageReplaceAll(code)]
    ELSE [form |-> "none", code |-> code]

\* The marker check that opens toggle (core.go 39-44): which pattern matched
\* ("canonical", "gofmt" or "none") and the code with that pattern's matches
\* deleted.
removeFakeUsages(code) ==
    IF fakeUsageMatch(code)
    THEN [form |-> "canonical", code |-> fakeUsageReplaceAll(code)]
    ELSE IF fakeUsageAfterGofmtMatch(code)
    THEN [form |-> "gofmt", code |-> fakeUsageAfterGofmtReplaceAll(code)]
    ELSE [form |-> "none", code |-> code]


\* --------------------------------------------- getSymbolsInfoFromBuildErrors
\* the line field of a position text
PosLine ==
    ("P1" :> 1) @@ ("P2" :> 2) @@ ("P3" :> 3) @@ ("P4" :> 4) @@ ("P5" :> 5)

\* a text that symbolPositionInErrorRegexp matches: .go:\d+:\d+:<space>
IsPos(t) == t \in (DOMAIN PosLine) \cup {"PBIG"}

\* a pattern that lets any text stand between the position and the message
rMatchStringApart(e, suffix) ==
    \E i \in 1..(Len(e) - 1) :
        IsPos(e[i]) /\ \E j \in (i + 1)..Len(e) : e[j] = suffix

\* r.MatchString(e) for r = symbolPositionInErrorRegexp + suffix: a position
\* immediately followed by the class's message
rMatchString(e, suffix) ==
    \E i \in 1..(Len(e) - 1) : IsPos(e[i]) /\ e[i + 1] = suffix

\* symbolPositionInError.FindString(e): the leftmost position text of e
RECURSIVE symbolPositionInErrorFindFrom(_, _)
symbolPositionInErrorFindFrom(e, i) ==
    IF i > Len(e) THEN ""
    ELSE IF IsPos(e[i]) THEN e[i]
    ELSE symbolPositionInErrorFindFrom(e, i + 1)

symbolPositionInErrorFindString(e) == symbolPositionInErrorFindFrom(e, 1)

\* strconv.Atoi of strings.Split(pos, ":")[lineNumIndex]: digits only, so it
\* fails exactly when the value does not fit an int
strconvAtoi(pos) ==
    IF pos \in DOMAIN PosLine THEN [n |-> PosLine[pos], err |-> ""]
    ELSE [n |-> 0, err |-> "strconv.Atoi"]

\* the loop over berrors (core.go 149-168): the entries so far are info; a
\* line that r does not match is skipped, a line field that does not parse
\* ends the call with (nil, error)
RECURSIVE symbolsInfoLoop(_, _, _)
symbolsInfoLoop(berrors, suffix, info) ==
    IF Len(berrors) = 0 THEN [info |-> info, err |-> ""]
    ELSE LET e == Head(berrors)
         IN  IF ~rMatchString(e, suffix)
             THEN symbolsInfoLoop(Tail(berrors), suffix, info)
             ELSE LET a == strconvAtoi(symbolPositionInErrorFindString(e))
                  IN  IF a.err # ""
                      THEN [info |-> << >>,
                            err |-> "getSymbolsInfoFromBuildErrors: in strconv.Atoi"]
                      ELSE symbolsInfoLoop(
                               Tail(berrors), suffix,
                               Append(info,
                                      [name |-> Split(e, suffix)[nameIndex + 1],
                                       lineNum |-> a.n - 1]))

\* what getSymbolsInfoFromBuildErrors returns once the build has run
\* (core.go 145-168); b.ok is "err == nil" of CombinedOutput
symbolsInfoFromOutput(b, suffix) ==
    IF b.ok THEN [info |-> << >>, err |-> ""]
    ELSE symbolsInfoLoop(Split(b.out, NL), suffix, << >>)

\* ------------------------------------------------------------ line rewriter
\* the lines an entry sequence may index (toggle checks nothing itself)
InRange(info, ls) == \A k \in 1..Len(info) : info[k].lineNum \in 0..(Len(ls) - 1)

\* core.go 56-60: every entry's line gets commentPrefix in front, in order
RECURSIVE commentLines(_, _)
commentLines(ls, info) ==
    IF Len(info) = 0 THEN ls
    ELSE commentLines(
             [ls EXCEPT ![Head(info).lineNum + 1] = commentPrefix \o @],
             Tail(info))

\* core.go 59: the line numbers remembered, one per entry
lineNums(info) == [k \in 1..Len(info) |-> info[k].lineNum]

\* the fake usage put in front of the line instead of after it
RECURSIVE appendFakeUsagesInFront(_, _)
appendFakeUsagesInFront(ls, info) ==
    IF Len(info) = 0 THEN ls
    ELSE appendFakeUsagesInFront(
             [ls EXCEPT ![Head(info).lineNum + 1] =
                  fakeUsagePrefix \o Head(info).name \o fakeUsageSuffix \o @],
             Tail(info))

\* core.go 71-76: every entry's line gets the fake usage appended, in order
RECURSIVE appendFakeUsages(_, _)
appendFakeUsages(ls, info) ==
    IF Len(info) = 0 THEN ls
    ELSE appendFakeUsages(
             [ls EXCEPT ![Head(info).lineNum + 1] =
                  @ \o fakeUsagePrefix \o Head(info).name \o fakeUsageSuffix],
             Tail(info))

\* []rune(string(l)): every token is kept as it is, except that a byte that
\* is not valid UTF-8 decodes to U+FFFD
Runes(l) == [k \in 1..Len(l) |-> IF l[k] = "xFF" THEN "FFFD" ELSE l[k]]

\* core.go 80-83: the line as runes, without the first len([]rune(commentPrefix))
\* of them, as bytes again.  (Every line this is applied to starts with the
\* three one-rune tokens of commentPrefix.)
uncommentLine(l) == SubSeq(Runes(l), Len(commentPrefix) + 1, Len(l))

\* core.go 78-84
RECURSIVE uncommentLines(_, _)
uncommentLines(ls, nums) ==
    IF Len(nums) = 0 THEN ls
    ELSE uncommentLines(
             [ls EXCEPT ![Head(nums) + 1] = uncommentLine(@)],
             Tail(nums))


\* ------------------------------------------------------------------ state
VARIABLES
    input,       \* toggle's argument code
    call,        \* 1: the first toggle call, 2: toggle of the first call's result
    prev,        \* what the first call was given and did (call 2 only)
    xBuilds,     \* whether `go build` succeeds on the first call's input
    ctxDone,     \* ctx.Done() is closed
    pc,          \* where the call is
    phase,       \* 0: outside, 1: the extraction of core.go 49, 2: that of 63
    code,        \* getSymbolsInfoFromBuildErrors' argument code
    lines,       \* toggle's lines
    commentedLinesNums,
    importsWithoutProviderInfo,
    notUsedVarsInfo,
    td,          \* the temporary directory exists
    tf,          \* the temporary file: [exists, content]
    boutput,     \* CombinedOutput's result: [ok, out]
    builds,      \* the builds this call has run: [suffix, code, content]
    made,        \* temporary directories and files this call has created
    ret          \* toggle's return values: [nil, code, err]


NoFile == [exists |-> FALSE, content |-> << >>]
NoOutput == [ok |-> TRUE, out |-> << >>]
NoRet == [nil |-> TRUE, code |-> << >>, err |-> ""]
NoPrev == [input |-> << >>, form |-> "none", notUsed |-> 0]

\* --------------------------------------------- state of run and toggleFile
VARIABLES
    args,        \* run's args, as parseArgs sees them: [h, x, v, w, paths]
    files0,      \* the content of every file when run starts
    files,       \* the content of every file
    stdin,       \* what standard input holds
    stdinRead,   \* standard input has been read
    stdout,      \* what has been written to standard output
    stderr,      \* what errorLog and infoLog have printed
    exit,        \* run's return value, -1 while it runs
    rpc,         \* where run is
    pathIdx,     \* the loop of part_001 119: index of the path p in conf.paths
    opened,      \* the paths openFile has opened
    inFile,      \* toggleFile's in: [name, off]
    fileCode,    \* toggleFile's code
    toggled,     \* toggleFile's toggled, err of the toggle call: [nil, code, err]
    calls        \* the toggle calls that returned without error: [code, toggled]

runVars == << args, files0, files, stdin, stdinRead, stdout, stderr, exit, rpc,
              pathIdx, opened, inFile, fileCode, toggled, calls >>

\* ------------------------------------------- state of concurrent toggle calls
VARIABLES
    procs,       \* every call's own state
    tmpDirs,     \* the directories that exist in os.TempDir()
    tmpFiles     \* the files in them: <<directory, file>> -> content

concVars == << procs, tmpDirs, tmpFiles >>

vars == << input, call, prev, xBuilds, ctxDone, pc, phase, code, lines,
           commentedLinesNums, importsWithoutProviderInfo, notUsedVarsInfo,
           td, tf, boutput, builds, made, ret,
           args, files0, files, stdin, stdinRead, stdout, stderr, exit, rpc,
           pathIdx, opened, inFile, fileCode, toggled, calls,
           procs, tmpDirs, tmpFiles >>

toggleVars == << input, call, prev, xBuilds, ctxDone, pc, phase, code, lines,
                 commentedLinesNums, importsWithoutProviderInfo,
                 notUsedVarsInfo, td, tf, boutput, builds, made, ret >>

NoArgs == [h |-> FALSE, x |-> FALSE, v |-> FALSE, w |-> FALSE, paths |-> << >>]
NoHandle == [name |-> "", off |-> 0]

\* run is not running
RunIdle ==
    /\ args = NoArgs
    /\ files0 = << >>
    /\ files = << >>
    /\ stdin = << >>
    /\ stdinRead = FALSE
    /\ stdout = << >>
    /\ stderr = << >>
    /\ exit = -1
    /\ rpc = "idle"
    /\ pathIdx = 0
    /\ opened = << >>
    /\ inFile = NoHandle
    /\ fileCode = << >>
    /\ toggled = NoRet
    /\ calls = << >>

\* no concurrent calls
ConcIdle ==
    /\ procs = << >>
    /\ tmpDirs = {}
    /\ tmpFiles = << >>

\* ----------------------------------------------------------------- inputs
\* the lines a source is made of
SourceLines ==
    { << "v" >>,                                           \* a statement
      << "v", ";", " ", "_", " ", "=", "v" >>,             \* v; _ =v
      << "é", "v" >>,                                      \* multi-byte rune
      << "v", "xFF" >>,                                    \* invalid UTF-8
      << >>,                                               \* empty line
      << "v" >> \o fakeUsagePrefix \o << " ", "v" >> \o fakeUsageSuffix,
      << "\t", "_", " ", "=", " ", "v" >> \o fakeUsageSuffix }

RECURSIVE SeqsUpTo(_, _)
\* the sequences over S of length 1..n
SeqsUpTo(S, n) ==
    IF n = 0 THEN {}
    ELSE LET shorter == SeqsUpTo(S, n - 1)
         IN  { << e >> : e \in S } \cup shorter
             \cup { Append(q, e) : q \in shorter, e \in S }

Sources == { Join(ls, NL) : ls \in SeqsUpTo(SourceLines, MaxLines) }

\* ---------------------------------------------------------------- go build
PosTok(n) == CHOOSE t \in DOMAIN PosLine : PosLine[t] = n

\* one line of build output per diagnostic
DiagNoProvider(n) == << "f", PosTok(n), noProviderErrorRegexpSuffix, " ", "w" >>
DiagNotUsed(n) == << "f", PosTok(n), notUsedErrorRegexpSuffix, " ", "v" >>
DiagOther == << "f", "P1", "S" >>

Output(diags) == [ok |-> FALSE, out |-> Join(diags, NL) \o << NL >>]

\* a diagnostic of a file whose name holds a text of the form of a position
\* with a line field too large for an int (a name given by a //line
\* directive, or a temporary directory under such a TMPDIR)
DiagBadName(suffix) == << "f", "PBIG", "f", "P1", suffix, " ", "v" >>

\* the build command could not be started (no go in PATH): CombinedOutput
\* gives an *exec.Error and no output
NotStarted == [ok |-> FALSE, out |-> << >>]

\* a comment that holds a byte that is not UTF-8
HasBadComment(content) ==
    \E k \in 1..Len(Split(content, NL)) :
        LET l == Split(content, NL)[k]
        IN  IsAt(l, 1, commentPrefix) /\ \E j \in 1..Len(l) : l[j] = "xFF"

\* What exec.Command("go", "build", ...).CombinedOutput() may give for a file
\* of this content (core.go 142-144).  The build either succeeds, or fails in
\* the loader with missing-provider errors only, or fails in the compiler
\* with its errors.  Positions name any line of the file or (through a
\* //line directive) the line after its last.  The loader parses the import
\* header with its comments, so a file in which the toggle has commented out
\* an import line holding invalid UTF-8 never reaches the type checker.  An
\* empty file and a file with invalid UTF-8 do not build.  Whatever the
\* content, the command may fail to start.
BuildResults(content) ==
    LET n == Len(Split(content, NL))
        ps == 1..(n + 1)
        noProvider == { Output(d) :
                          d \in SeqsUpTo(
                              { DiagNoProvider(k) : k \in ps }
                                  \cup { DiagBadName(noProviderErrorRegexpSuffix) },
                              MaxDiags) }
        compiler == { Output(d) :
                        d \in SeqsUpTo(
                            (IF HasBadComment(content) THEN {}
                             ELSE { DiagNotUsed(k) : k \in ps }
                                      \cup { DiagBadName(notUsedErrorRegexpSuffix) })
                                \cup { DiagOther },
                            MaxDiags) }
        bad == content = << >> \/ \E j \in 1..Len(content) : content[j] = "xFF"
    IN  { NotStarted } \cup
        (IF content = << >> THEN { Output(<< DiagOther >>) }
         ELSE (IF bad THEN {} ELSE { NoOutput }) \cup noProvider \cup compiler)


\* ------------------------------------------------------------------- start
Fresh(in, c, p, xb) ==
    /\ input = in
    /\ call = c
    /\ prev = p
    /\ xBuilds = xb
    /\ pc = "toggle"
    /\ phase = 0
    /\ code = << >>
    /\ lines = << >>
    /\ commentedLinesNums = << >>
    /\ importsWithoutProviderInfo = << >>
    /\ notUsedVarsInfo = << >>
    /\ td = FALSE
    /\ tf = NoFile
    /\ boutput = NoOutput
    /\ builds = << >>
    /\ made = [dirs |-> 0, files |-> 0]
    /\ ret = NoRet
    /\ RunIdle
    /\ ConcIdle

Init ==
    /\ ctxDone = FALSE
    /\ \E in \in Sources, xb \in BOOLEAN :
          /\ xb => NoOutput \in BuildResults(in)
          /\ Fresh(in, 1, NoPrev, xb)

\* ------------------------------------------------------------------ toggle
\* core.go 39-44: a marker pattern matches; its matches are deleted and the
\* call returns
ToggleRemove ==
    /\ pc = "toggle"
    /\ removeFakeUsages(input).form # "none"
    /\ ret' = [nil |-> FALSE, code |-> removeFakeUsages(input).code, err |-> ""]
    /\ pc' = "done"
    /\ UNCHANGED << input, call, prev, xBuilds, ctxDone, phase, code, lines,
                    commentedLinesNums, importsWithoutProviderInfo,
                    notUsedVarsInfo, td, tf, boutput, builds, made >>
    /\ UNCHANGED << runVars, concVars >>

\* toggle going on to the detection whatever the marker check found
ToggleSplitAlways ==
    /\ pc = "toggle"
    /\ lines' = Split(input, NL)
    /\ code' = input
    /\ phase' = 1
    /\ pc' = "enter"
    /\ UNCHANGED << input, call, prev, xBuilds, ctxDone, commentedLinesNums,
                    importsWithoutProviderInfo, notUsedVarsInfo, td, tf,
                    boutput, builds, made, ret >>
    /\ UNCHANGED << runVars, concVars >>

\* core.go 46-51: no pattern matches; the code is split into lines and the
\* first extraction is called on the code
ToggleSplit ==
    /\ pc = "toggle"
    /\ removeFakeUsages(input).form = "none"
    /\ lines' = Split(input, NL)
    /\ code' = input
    /\ phase' = 1
    /\ pc' = "enter"
    /\ UNCHANGED << input, call, prev, xBuilds, ctxDone, commentedLinesNums,
                    importsWithoutProviderInfo, notUsedVarsInfo, td, tf,
                    boutput, builds, made, ret >>
    /\ UNCHANGED << runVars, concVars >>

\* an error of the extraction returned together with the lines as they are
ReturnKeepsLines(info, err) ==
    IF err # ""
    THEN /\ ret' = [nil |-> FALSE, code |-> Join(lines, NL), err |-> "toggle: " \o err]
         /\ pc' = "done"
         /\ UNCHANGED << importsWithoutProviderInfo, notUsedVarsInfo >>
    ELSE /\ ret' = ret
         /\ IF phase = 1
            THEN /\ importsWithoutProviderInfo' = info
                 /\ pc' = "comment"
                 /\ UNCHANGED notUsedVarsInfo
            ELSE /\ notUsedVarsInfo' = info
                 /\ pc' = "append"
                 /\ UNCHANGED importsWithoutProviderInfo

\* getSymbolsInfoFromBuildErrors returns (info, err) to toggle (core.go 52-54
\* and 68-70): an error ends toggle with (nil, "toggle: " + err)
Return(info, err) ==
    IF err # ""
    THEN /\ ret' = [nil |-> TRUE, code |-> << >>, err |-> "toggle: " \o err]
         /\ pc' = "done"
         /\ UNCHANGED << importsWithoutProviderInfo, notUsedVarsInfo >>
    ELSE /\ ret' = ret
         /\ IF phase = 1
            THEN /\ importsWithoutProviderInfo' = info
                 /\ pc' = "comment"
                 /\ UNCHANGED notUsedVarsInfo
            ELSE /\ notUsedVarsInfo' = info
                 /\ pc' = "append"
                 /\ UNCHANGED importsWithoutProviderInfo

\* the extraction without the select on ctx.Done()
ExtractEnterNoCtxCheck ==
    /\ pc = "enter"
    /\ \E ok \in BOOLEAN :
          IF ok
          THEN /\ td' = TRUE
               /\ made' = [made EXCEPT !.dirs = @ + 1]
               /\ pc' = "createTemp"
               /\ UNCHANGED << ret, importsWithoutProviderInfo, notUsedVarsInfo >>
          ELSE /\ Return(<< >>, "getSymbolsInfoFromBuildErrors: in os.MkdirTemp")
               /\ UNCHANGED << td, made >>
    /\ UNCHANGED << input, call, prev, xBuilds, ctxDone, phase, code, lines,
                    commentedLinesNums, tf, boutput, builds >>
    /\ UNCHANGED << runVars, concVars >>

\* core.go 123-134: a closed ctx.Done() returns (nil, nil) at once;
\* otherwise os.MkdirTemp creates the directory or fails
ExtractEnter ==
    /\ pc = "enter"
    /\ IF ctxDone
       THEN /\ Return(<< >>, "")
            /\ UNCHANGED << td, made >>
       ELSE \E ok \in BOOLEAN :
               IF ok
               THEN /\ td' = TRUE
                    /\ made' = [made EXCEPT !.dirs = @ + 1]
                    /\ pc' = "createTemp"
                    /\ UNCHANGED << ret, importsWithoutProviderInfo, notUsedVarsInfo >>
               ELSE /\ Return(<< >>, "getSymbolsInfoFromBuildErrors: in os.MkdirTemp")
                    /\ UNCHANGED << td, made >>
    /\ UNCHANGED << input, call, prev, xBuilds, ctxDone, phase, code, lines,
                    commentedLinesNums, tf, boutput, builds >>
    /\ UNCHANGED << runVars, concVars >>

\* os.CreateTemp's failure returning without the deferred os.RemoveAll(td)
ExtractCreateTempLeavesDir ==
    /\ pc = "createTemp"
    /\ \E ok \in BOOLEAN :
          IF ok
          THEN /\ tf' = [exists |-> TRUE, content |-> << >>]
               /\ made' = [made EXCEPT !.files = @ + 1]
               /\ pc' = "build"
               /\ UNCHANGED << td, ret, importsWithoutProviderInfo, notUsedVarsInfo >>
          ELSE /\ Return(<< >>, "getSymbolsInfoFromBuildErrors: in os.CreateTemp")
               /\ UNCHANGED << td, tf, made >>
    /\ UNCHANGED << input, call, prev, xBuilds, ctxDone, phase, code, lines,
                    commentedLinesNums, boutput, builds >>
    /\ UNCHANGED << runVars, concVars >>

\* core.go 135-140: os.CreateTemp creates the file or fails; on failure the
\* deferred os.RemoveAll(td) runs
ExtractCreateTemp ==
    /\ pc = "createTemp"
    /\ \E ok \in BOOLEAN :
          IF ok
          THEN /\ tf' = [exists |-> TRUE, content |-> << >>]
               /\ made' = [made EXCEPT !.files = @ + 1]
               /\ pc' = "build"
               /\ UNCHANGED << td, ret, importsWithoutProviderInfo, notUsedVarsInfo >>
          ELSE /\ Return(<< >>, "getSymbolsInfoFromBuildErrors: in os.CreateTemp")
               /\ td' = FALSE
               /\ UNCHANGED << tf, made >>
    /\ UNCHANGED << input, call, prev, xBuilds, ctxDone, phase, code, lines,
                    commentedLinesNums, boutput, builds >>
    /\ UNCHANGED << runVars, concVars >>

\* What the build gives for the file's content: the first call's input builds
\* as xBuilds says, and a content that the call has built before gives the
\* same output again.
BuildResultsNow(content) ==
    IF builds # << >> /\ builds[Len(builds)].content = content
    THEN { boutput }
    ELSE IF call = 1 /\ content = input
    THEN (IF xBuilds THEN { NoOutput } ELSE BuildResults(content) \ { NoOutput })
    ELSE BuildResults(content)

\* core.go 141-144: tf.Write(code), its result unchecked (a failed write
\* leaves the file empty), then the build of the file
ExtractBuild ==
    /\ pc = "build"
    /\ \E wrote \in BOOLEAN :
          LET content == IF wrote THEN code ELSE << >>
          IN  /\ tf' = [tf EXCEPT !.content = content]
              /\ \E b \in BuildResultsNow(content) : boutput' = b
              /\ builds' = Append(builds, [suffix |-> IF phase = 1
                                                      THEN noProviderErrorRegexpSuffix
                                                      ELSE notUsedErrorRegexpSuffix,
                                           code |-> code,
                                           content |-> content])
    /\ pc' = "parse"
    /\ UNCHANGED << input, call, prev, xBuilds, ctxDone, phase, code, lines,
                    commentedLinesNums, importsWithoutProviderInfo,
                    notUsedVarsInfo, td, made, ret >>
    /\ UNCHANGED << runVars, concVars >>

\* core.go 145-168, then the deferred tf.Close() and os.RemoveAll(td)
ExtractParse ==
    /\ pc = "parse"
    /\ LET r == symbolsInfoFromOutput(
                    boutput,
                    IF phase = 1 THEN noProviderErrorRegexpSuffix
                    ELSE notUsedErrorRegexpSuffix)
       IN  Return(r.info, r.err)
    /\ td' = FALSE
    /\ tf' = NoFile
    /\ UNCHANGED << input, call, prev, xBuilds, ctxDone, phase, code, lines,
                    commentedLinesNums, boutput, builds, made >>
    /\ UNCHANGED << runVars, concVars >>

\* the second extraction called on toggle's argument instead of the lines
ToggleCommentThenRawCode ==
    /\ pc = "comment"
    /\ IF InRange(importsWithoutProviderInfo, lines)
       THEN /\ lines' = commentLines(lines, importsWithoutProviderInfo)
            /\ commentedLinesNums' = lineNums(importsWithoutProviderInfo)
            /\ code' = input
            /\ phase' = 2
            /\ pc' = "enter"
       ELSE /\ pc' = "panic"
            /\ UNCHANGED << lines, commentedLinesNums, code, phase >>
    /\ UNCHANGED << input, call, prev, xBuilds, ctxDone,
                    importsWithoutProviderInfo, notUsedVarsInfo, td, tf,
                    boutput, builds, made, ret >>
    /\ UNCHANGED << runVars, concVars >>

\* core.go 55-67: the lines of the import errors are commented out and
\* remembered, and the second extraction is called on the joined lines.  An
\* index outside lines panics.
ToggleComment ==
    /\ pc = "comment"
    /\ IF InRange(importsWithoutProviderInfo, lines)
       THEN /\ lines' = commentLines(lines, importsWithoutProviderInfo)
            /\ commentedLinesNums' = lineNums(importsWithoutProviderInfo)
            /\ code' = Join(lines', NL)
            /\ phase' = 2
            /\ pc' = "enter"
       ELSE /\ pc' = "panic"
            /\ UNCHANGED << lines, commentedLinesNums, code, phase >>
    /\ UNCHANGED << input, call, prev, xBuilds, ctxDone,
                    importsWithoutProviderInfo, notUsedVarsInfo, td, tf,
                    boutput, builds, made, ret >>
    /\ UNCHANGED << runVars, concVars >>

\* core.go 71-76: a fake usage is appended for every not-used error
ToggleAppend ==
    /\ pc = "append"
    /\ IF InRange(notUsedVarsInfo, lines)
       THEN /\ lines' = appendFakeUsages(lines, notUsedVarsInfo)
            /\ pc' = "uncomment"
       ELSE /\ pc' = "panic"
            /\ UNCHANGED lines
    /\ UNCHANGED << input, call, prev, xBuilds, ctxDone, phase, code,
                    commentedLinesNums, importsWithoutProviderInfo,
                    notUsedVarsInfo, td, tf, boutput, builds, made, ret >>
    /\ UNCHANGED << runVars, concVars >>

\* core.go 77-85: the commented lines are un-commented and the lines joined
ToggleUncomment ==
    /\ pc = "uncomment"
    /\ lines' = uncommentLines(lines, commentedLinesNums)
    /\ ret' = [nil |-> FALSE, code |-> Join(lines', NL), err |-> ""]
    /\ pc' = "done"
    /\ UNCHANGED << input, call, prev, xBuilds, ctxDone, phase, code,
                    commentedLinesNums, importsWithoutProviderInfo,
                    notUsedVarsInfo, td, tf, boutput, builds, made >>
    /\ UNCHANGED << runVars, concVars >>

\* toggle is called on what the first call returned (gouse -w f f)
Again ==
    /\ pc = "done"
    /\ call = 1
    /\ ~ret.nil
    /\ input' = ret.code
    /\ call' = 2
    /\ prev' = [input |-> input,
                form |-> removeFakeUsages(input).form,
                notUsed |-> Len(notUsedVarsInfo)]
    /\ pc' = "toggle"
    /\ phase' = 0
    /\ code' = << >>
    /\ lines' = << >>
    /\ commentedLinesNums' = << >>
    /\ importsWithoutProviderInfo' = << >>
    /\ notUsedVarsInfo' = << >>
    /\ boutput' = NoOutput
    /\ builds' = << >>
    /\ made' = [dirs |-> 0, files |-> 0]
    /\ ret' = NoRet
    /\ UNCHANGED << xBuilds, ctxDone, td, tf >>
    /\ UNCHANGED << runVars, concVars >>

\* the signal that closes ctx.Done() arrives (part_001 84)
Cancel ==
    /\ ~ctxDone
    /\ pc \notin {"done", "panic"}
    /\ ctxDone' = TRUE
    /\ UNCHANGED << input, call, prev, xBuilds, pc, phase, code, lines,
                    commentedLinesNums, importsWithoutProviderInfo,
                    notUsedVarsInfo, td, tf, boutput, builds, made, ret >>
    /\ UNCHANGED << runVars, concVars >>

Next ==
    \/ ToggleRemove
    \/ ToggleSplit
    \/ ExtractEnter
    \/ ExtractCreateTemp
    \/ ExtractBuild
    \/ ExtractParse
    \/ ToggleComment
    \/ ToggleAppend
    \/ ToggleUncomment
    \/ Again
    \/ Cancel

Spec == Init /\ [][Next]_vars

\* ------------------------------------------------- marker removal alone
\* the pieces a marked source is made of
SourceChunks ==
    { << "v" >>, << ";" >>, << "\t" >>, << NL >>,
      fakeUsagePrefix,
      fakeUsageSuffix,
      fakeUsagePrefix \o << " ", "v" >> \o fakeUsageSuffix,
      << "_", " ", "=", " ", "v" >> \o fakeUsageSuffix }

RECURSIVE Concat(_)
Concat(cs) == IF Len(cs) = 0 THEN << >> ELSE Head(cs) \o Concat(Tail(cs))

MarkedSources ==
    { c \in { Concat(cs) : cs \in SeqsUpTo(SourceChunks, MaxChunks) } :
        removeFakeUsages(c).form # "none" }

InitRemove ==
    /\ ctxDone = FALSE
    /\ \E in \in MarkedSources : Fresh(in, 1, NoPrev, FALSE)

NextRemove == ToggleRemove

SpecRemove == InitRemove /\ [][NextRemove]_vars

\* ---------------------------------------------- build output parsing alone
OutputTokens == { "P1", "P2", "PBIG", "U", "I", "v", NL }

Outputs == { << >> } \cup SeqsUpTo(OutputTokens, MaxOutLen)

\* an extraction whose build has just ended with some output
InitParse ==
    /\ input = << "v", NL, "v" >>
    /\ call = 1
    /\ prev = NoPrev
    /\ xBuilds = FALSE
    /\ ctxDone = FALSE
    /\ pc = "parse"
    /\ phase \in {1, 2}
    /\ code = input
    /\ lines = Split(input, NL)
    /\ commentedLinesNums = << >>
    /\ importsWithoutProviderInfo = << >>
    /\ notUsedVarsInfo = << >>
    /\ td = TRUE
    /\ tf = [exists |-> TRUE, content |-> input]
    /\ \E ok \in BOOLEAN, out \in Outputs : boutput = [ok |-> ok, out |-> out]
    /\ builds = << [suffix |-> IF phase = 1 THEN noProviderErrorRegexpSuffix
                               ELSE notUsedErrorRegexpSuffix,
                    code |-> input, content |-> input] >>
    /\ made = [dirs |-> 1, files |-> 1]
    /\ ret = NoRet
    /\ RunIdle
    /\ ConcIdle

NextParse == ExtractParse

SpecParse == InitParse /\ [][NextParse]_vars

\* ------------------------------------------------------ run and toggleFile
\* no toggle call is running
ToggleIdle ==
    /\ input = << >>
    /\ call = 1
    /\ prev = NoPrev
    /\ xBuilds = FALSE
    /\ ctxDone = FALSE
    /\ pc = "idle"
    /\ phase = 0
    /\ code = << >>
    /\ lines = << >>
    /\ commentedLinesNums = << >>
    /\ importsWithoutProviderInfo = << >>
    /\ notUsedVarsInfo = << >>
    /\ td = FALSE
    /\ tf = NoFile
    /\ boutput = NoOutput
    /\ builds = << >>
    /\ made = [dirs |-> 0, files |-> 0]
    /\ ret = NoRet

\* the files that exist, and the names a path argument may have ("x" names
\* no file)
Paths == { "a", "b" }
PathArgs == Paths \cup { "x" }

\* what a file or standard input may hold: one line, two lines, and a line
\* with a fake usage
FileContents ==
    { << "v" >>,
      << "v", NL, "v" >>,
      << "v" >> \o fakeUsagePrefix \o << " ", "v" >> \o fakeUsageSuffix }

PathLists == { << >> } \cup SeqsUpTo(PathArgs, MaxPaths)

\* the argument lists: flags.Parse fails with flag.ErrHelp ("help") at -h,
\* with another error ("undefined") at a flag that is not defined, and
\* otherwise ("") gives the flags -v and -w and the paths
ArgLists ==
    [flagErr : { "", "help", "undefined" }, v : BOOLEAN, w : BOOLEAN,
     paths : PathLists]

\* parseArgs (io.go 31-45): (conf, err); conf is nil when err is not
parseArgs(a) ==
    IF a.flagErr # ""
    THEN [nil |-> TRUE, version |-> FALSE, write |-> FALSE, paths |-> << >>,
          err |-> a.flagErr]
    ELSE [nil |-> FALSE, version |-> a.v, write |-> a.w, paths |-> a.paths,
          err |-> ""]

conf == parseArgs(args)

\* (the source's texts hold typographic quotes around -w)
errCannotWriteToStdin == "cannot use '-w' flag with standard input"
errMustWriteToFiles == "must use '-w' flag with more than one path"
errorLogPrefix == "error: "
currentVersion == "1.2.2"

\* what a detection pass of toggle returns for the lines ls when the first
\* extraction gives imp and the second nu (core.go 55-85)
Detected(ls, imp, nu) ==
    Join(uncommentLines(appendFakeUsages(commentLines(ls, imp), nu),
                        lineNums(imp)), NL)

\* no entry, or one entry for a line of ls
Infos(ls) ==
    { << >> } \cup
    { << [name |-> << " ", "v" >>, lineNum |-> k] >> : k \in 0..(Len(ls) - 1) }

\* What toggle(ctx, code) may return (core.go 36-86): the code without its
\* fake usages if it holds any; otherwise an extraction's error, or the
\* lines with the fake usages for what the builds reported.
ToggleOutcomes(c) ==
    IF removeFakeUsages(c).form # "none"
    THEN { [nil |-> FALSE, code |-> removeFakeUsages(c).code, err |-> ""] }
    ELSE { [nil |-> TRUE, code |-> << >>,
            err |-> "toggle: getSymbolsInfoFromBuildErrors"] }
         \cup { [nil |-> FALSE, code |-> Detected(Split(c, NL), imp, nu), err |-> ""] :
                  imp \in Infos(Split(c, NL)), nu \in Infos(Split(c, NL)) }

InitRun ==
    /\ ToggleIdle
    /\ ConcIdle
    /\ args \in ArgLists
    /\ files0 \in [Paths -> FileContents]
    /\ files = files0
    /\ stdin \in FileContents
    /\ stdinRead = FALSE
    /\ stdout = << >>
    /\ stderr = << >>
    /\ exit = -1
    /\ rpc = "parse"
    /\ pathIdx = 0
    /\ opened = << >>
    /\ inFile = NoHandle
    /\ fileCode = << >>
    /\ toggled = NoRet
    /\ calls = << >>

\* run returns n after printing msg (errorLog.Print, infoLog.Print)
RunReturns(n, msg) ==
    /\ exit' = n
    /\ stderr' = Append(stderr, msg)
    /\ rpc' = "exit"

\* part_001 90-102: parseArgs; -h prints the usage and returns 2, another
\* parse error returns 1, -v prints the version and returns 0
RunParse ==
    /\ rpc = "parse"
    /\ IF conf.err = "help" THEN RunReturns(2, "usage")
       ELSE IF conf.err # "" THEN RunReturns(1, errorLogPrefix \o "run: in parseArgs")
       ELSE IF conf.version THEN RunReturns(0, currentVersion)
       ELSE /\ rpc' = IF Len(conf.paths) = 0 THEN "noPaths" ELSE "checkPaths"
            /\ UNCHANGED << exit, stderr >>
    /\ UNCHANGED << args, files0, files, stdin, stdinRead, stdout, pathIdx,
                    opened, inFile, fileCode, toggled, calls >>
    /\ UNCHANGED << toggleVars, concVars >>

\* no paths: standard input is toggled whether -w is given or not
RunNoPathsAlwaysToggles ==
    /\ rpc = "noPaths"
    /\ inFile' = [name |-> "stdin", off |-> 0]
    /\ rpc' = "read"
    /\ UNCHANGED << exit, stderr >>
    /\ UNCHANGED << args, files0, files, stdin, stdinRead, stdout, pathIdx,
                    opened, fileCode, toggled, calls >>
    /\ UNCHANGED << toggleVars, concVars >>

\* part_001 104-109: no paths; with -w that is an error, without it
\* toggleFile(ctx, stdin, stdout) is called
RunNoPaths ==
    /\ rpc = "noPaths"
    /\ IF conf.write
       THEN /\ RunReturns(1, errorLogPrefix \o errCannotWriteToStdin)
            /\ UNCHANGED inFile
       ELSE /\ inFile' = [name |-> "stdin", off |-> 0]
            /\ rpc' = "read"
            /\ UNCHANGED << exit, stderr >>
    /\ UNCHANGED << args, files0, files, stdin, stdinRead, stdout, pathIdx,
                    opened, fileCode, toggled, calls >>
    /\ UNCHANGED << toggleVars, concVars >>

\* the loop entered whatever the number of paths
RunCheckPathsNever ==
    /\ rpc = "checkPaths"
    /\ pathIdx' = 1
    /\ rpc' = "open"
    /\ UNCHANGED << exit, stderr >>
    /\ UNCHANGED << args, files0, files, stdin, stdinRead, stdout, opened,
                    inFile, fileCode, toggled, calls >>
    /\ UNCHANGED << toggleVars, concVars >>

\* part_001 115-119: more than one path needs -w; otherwise the loop over
\* the paths begins
RunCheckPaths ==
    /\ rpc = "checkPaths"
    /\ IF Len(conf.paths) > 1 /\ ~conf.write
       THEN /\ RunReturns(1, errorLogPrefix \o errMustWriteToFiles)
            /\ UNCHANGED pathIdx
       ELSE /\ pathIdx' = 1
            /\ rpc' = "open"
            /\ UNCHANGED << exit, stderr >>
    /\ UNCHANGED << args, files0, files, stdin, stdinRead, stdout, opened,
                    inFile, fileCode, toggled, calls >>
    /\ UNCHANGED << toggleVars, concVars >>

\* part_001 119-136 and 141: after the last path run returns 0; otherwise
\* the path is opened (for reading and writing with -w) and toggleFile is
\* called on it, or openFile fails and run returns 1
RunOpen ==
    /\ rpc = "open"
    /\ IF pathIdx > Len(conf.paths)
       THEN /\ exit' = 0
            /\ rpc' = "exit"
            /\ UNCHANGED << stderr, opened, inFile >>
       ELSE \E ok \in BOOLEAN :
               IF ok /\ conf.paths[pathIdx] \in DOMAIN files
               THEN /\ opened' = Append(opened, conf.paths[pathIdx])
                    /\ inFile' = [name |-> conf.paths[pathIdx], off |-> 0]
                    /\ rpc' = "read"
                    /\ UNCHANGED << exit, stderr >>
               ELSE /\ RunReturns(1, errorLogPrefix \o "open")
                    /\ UNCHANGED << opened, inFile >>
    /\ UNCHANGED << args, files0, files, stdin, stdinRead, stdout, pathIdx,
                    fileCode, toggled, calls >>
    /\ UNCHANGED << toggleVars, concVars >>

\* toggleFile returns err to run (part_001 109-113 and 136-140): an error
\* is printed and run returns 1; otherwise run returns 0 (standard input) or
\* goes on to the next path
ToggleFileReturns(err) ==
    IF err # "" THEN /\ RunReturns(1, errorLogPrefix \o err)
                     /\ UNCHANGED pathIdx
    ELSE IF Len(conf.paths) = 0
    THEN /\ exit' = 0
         /\ rpc' = "exit"
         /\ UNCHANGED << stderr, pathIdx >>
    ELSE /\ pathIdx' = pathIdx + 1
         /\ rpc' = "open"
         /\ UNCHANGED << exit, stderr >>

\* out == in (io.go 58): with -w, out is the file toggleFile reads
OutIsIn == conf.write /\ Len(conf.paths) > 0

\* what in holds
InContent == IF inFile.name = "stdin" THEN stdin ELSE files[inFile.name]

\* io.go 50-53: io.ReadAll(in) reads from the offset to the end
ToggleFileRead ==
    /\ rpc = "read"
    /\ \E ok \in BOOLEAN :
          IF ok
          THEN /\ fileCode' = SubSeq(InContent, inFile.off + 1, Len(InContent))
               /\ inFile' = [inFile EXCEPT !.off = Len(InContent)]
               /\ stdinRead' = (stdinRead \/ inFile.name = "stdin")
               /\ rpc' = "toggle"
               /\ UNCHANGED << exit, stderr, pathIdx >>
          ELSE /\ ToggleFileReturns("toggleFile: in io.ReadAll")
               /\ UNCHANGED << fileCode, inFile, stdinRead >>
    /\ UNCHANGED << args, files0, files, stdin, stdout, opened, toggled, calls >>
    /\ UNCHANGED << toggleVars, concVars >>

\* the file emptied before toggle is called, whatever toggle returns
ToggleFileToggleTruncatesFirst ==
    /\ rpc = "toggle"
    /\ files' = IF OutIsIn THEN [files EXCEPT ![inFile.name] = << >>] ELSE files
    /\ \E o \in ToggleOutcomes(fileCode) :
          /\ toggled' = o
          /\ calls' = Append(calls, [code |-> fileCode, ret |-> o])
          /\ IF o.err # ""
             THEN ToggleFileReturns("toggleFile: " \o o.err)
             ELSE /\ rpc' = IF OutIsIn THEN "seek" ELSE "write"
                  /\ UNCHANGED << exit, stderr, pathIdx >>
    /\ UNCHANGED << args, files0, stdin, stdinRead, stdout, opened,
                    inFile, fileCode >>
    /\ UNCHANGED << toggleVars, concVars >>

\* io.go 54-57: toggle(ctx, code)
ToggleFileToggle ==
    /\ rpc = "toggle"
    /\ \E o \in ToggleOutcomes(fileCode) :
          /\ toggled' = o
          /\ calls' = Append(calls, [code |-> fileCode, ret |-> o])
          /\ IF o.err # ""
             THEN ToggleFileReturns("toggleFile: " \o o.err)
             ELSE /\ rpc' = IF OutIsIn THEN "seek" ELSE "write"
                  /\ UNCHANGED << exit, stderr, pathIdx >>
    /\ UNCHANGED << args, files0, files, stdin, stdinRead, stdout, opened,
                    inFile, fileCode >>
    /\ UNCHANGED << toggleVars, concVars >>

\* io.go 59-61: out.Seek(0, io.SeekStart)
ToggleFileSeek ==
    /\ rpc = "seek"
    /\ \E ok \in BOOLEAN :
          IF ok
          THEN /\ inFile' = [inFile EXCEPT !.off = 0]
               /\ rpc' = "truncate"
               /\ UNCHANGED << exit, stderr, pathIdx >>
          ELSE /\ ToggleFileReturns("toggleFile: in *File.Seek")
               /\ UNCHANGED inFile
    /\ UNCHANGED << args, files0, files, stdin, stdinRead, stdout, opened,
                    fileCode, toggled, calls >>
    /\ UNCHANGED << toggleVars, concVars >>

\* the write begun without out.Truncate(0)
ToggleFileTruncateNothing ==
    /\ rpc = "truncate"
    /\ \E ok \in BOOLEAN :
          IF ok
          THEN /\ rpc' = "write"
               /\ UNCHANGED << exit, stderr, pathIdx >>
          ELSE ToggleFileReturns("toggleFile: in *File.Truncate")
    /\ UNCHANGED << args, files0, files, stdin, stdinRead, stdout, opened,
                    inFile, fileCode, toggled, calls >>
    /\ UNCHANGED << toggleVars, concVars >>

\* io.go 62-64: out.Truncate(0) empties the file and leaves the offset
ToggleFileTruncate ==
    /\ rpc = "truncate"
    /\ \E ok \in BOOLEAN :
          IF ok
          THEN /\ files' = [files EXCEPT ![inFile.name] = << >>]
               /\ rpc' = "write"
               /\ UNCHANGED << exit, stderr, pathIdx >>
          ELSE /\ ToggleFileReturns("toggleFile: in *File.Truncate")
               /\ UNCHANGED files
    /\ UNCHANGED << args, files0, stdin, stdinRead, stdout, opened, inFile,
                    fileCode, toggled, calls >>
    /\ UNCHANGED << toggleVars, concVars >>

\* a file's content after data is written at offset off: the bytes there are
\* overwritten, a gap after the end reads as zero bytes
WriteAt(content, off, data) ==
    [k \in 1..(IF off + Len(data) > Len(content) THEN off + Len(data)
               ELSE Len(content)) |->
        IF k > off /\ k <= off + Len(data) THEN data[k - off]
        ELSE IF k <= Len(content) THEN content[k]
        ELSE "NUL"]

\* io.go 66-69: out.Write(toggled); a failed write has written less than
\* all of it
ToggleFileWrite ==
    /\ rpc = "write"
    /\ \E n \in 0..Len(toggled.code) :
          LET data == SubSeq(toggled.code, 1, n)
          IN  /\ IF OutIsIn
                 THEN /\ files' = [files EXCEPT ![inFile.name] =
                                       WriteAt(@, inFile.off, data)]
                      /\ inFile' = [inFile EXCEPT !.off = @ + n]
                      /\ UNCHANGED stdout
                 ELSE /\ stdout' = stdout \o data
                      /\ UNCHANGED << files, inFile >>
              /\ IF n = Len(toggled.code)
                 THEN ToggleFileReturns("")
                 ELSE ToggleFileReturns("toggleFile: in *File.Write")
    /\ UNCHANGED << args, files0, stdin, stdinRead, opened, fileCode,
                    toggled, calls >>
    /\ UNCHANGED << toggleVars, concVars >>

NextRun ==
    \/ RunParse
    \/ RunNoPaths
    \/ RunCheckPaths
    \/ RunOpen
    \/ ToggleFileRead
    \/ ToggleFileToggle
    \/ ToggleFileSeek
    \/ ToggleFileTruncate
    \/ ToggleFileWrite

SpecRun == InitRun /\ [][NextRun]_vars

\* -------------------------------------------------- concurrent toggle calls
\* the calls, and the names os.MkdirTemp and os.CreateTemp choose from
Procs == 1..MaxProcs
DirNames == 1..(MaxProcs + 1)
FileNames == 1..MaxProcs

\* the lines of the sources toggled concurrently: an import that no module
\* provides, a declaration of v that is not used, a line without error, and
\* a line that holds a fake usage
ConcLines ==
    { << "w" >>, << "v" >>, << "é" >>,
      << "v" >> \o fakeUsagePrefix \o << " ", "v" >> \o fakeUsageSuffix }

ConcSources == { Join(ls, NL) : ls \in SeqsUpTo(ConcLines, MaxLines) }

\* the indices of seq, in order, whose element is e
RECURSIVE IndicesOf(_, _, _)
IndicesOf(seq, e, k) ==
    IF k > Len(seq) THEN << >>
    ELSE (IF seq[k] = e THEN << k >> ELSE << >>) \o IndicesOf(seq, e, k + 1)

\* `go build` as a function of the file it reads (core.go 142-144): a file
\* that is missing or empty gives another error; unprovided imports stop the
\* build in the loader, one error for each; otherwise the compiler reports
\* each variable that is not used; otherwise the build succeeds
GoBuild(found, content) ==
    LET ls == Split(content, NL)
        imports == IndicesOf(ls, << "w" >>, 1)
        notUsed == IndicesOf(ls, << "v" >>, 1)
    IN  IF ~found \/ content = << >> THEN Output(<< DiagOther >>)
        ELSE IF imports # << >>
        THEN Output([k \in 1..Len(imports) |-> DiagNoProvider(imports[k])])
        ELSE IF notUsed # << >>
        THEN Output([k \in 1..Len(notUsed) |-> DiagNotUsed(notUsed[k])])
        ELSE NoOutput

\* toggle(ctx, code) run alone, with that build (core.go 36-86)
ToggleAlone(c) ==
    IF removeFakeUsages(c).form # "none" THEN removeFakeUsages(c).code
    ELSE LET imp == symbolsInfoFromOutput(GoBuild(TRUE, c),
                                          noProviderErrorRegexpSuffix).info
             commented == commentLines(Split(c, NL), imp)
             nu == symbolsInfoFromOutput(GoBuild(TRUE, Join(commented, NL)),
                                         notUsedErrorRegexpSuffix).info
         IN  Join(uncommentLines(appendFakeUsages(commented, nu), lineNums(imp)), NL)

\* a call that has not begun
FreshProc(in) ==
    [input |-> in, pc |-> "toggle", phase |-> 0, code |-> << >>,
     lines |-> << >>, commentedLinesNums |-> << >>, td |-> 0, tf |-> 0,
     boutput |-> NoOutput, reads |-> << >>, ret |-> NoRet]

InitConc ==
    /\ ToggleIdle
    /\ RunIdle
    /\ \E ins \in [Procs -> ConcSources] :
          /\ \A p, q \in Procs : p # q => ins[p] # ins[q]
          /\ procs = [p \in Procs |-> FreshProc(ins[p])]
    /\ tmpDirs = {}
    /\ tmpFiles = << >>

\* the files that are not in directory d
FilesOutside(d) ==
    [x \in { y \in DOMAIN tmpFiles : y[1] # d } |-> tmpFiles[x]]

\* core.go 39-51: fake usages are removed and the call returns, or the code
\* is split and the first extraction called
ConcToggle(p) ==
    /\ procs[p].pc = "toggle"
    /\ procs' = [procs EXCEPT ![p] =
          IF removeFakeUsages(@.input).form # "none"
          THEN [@ EXCEPT !.ret = [nil |-> FALSE,
                                  code |-> removeFakeUsages(procs[p].input).code,
                                  err |-> ""],
                         !.pc = "done"]
          ELSE [@ EXCEPT !.lines = Split(procs[p].input, NL),
                         !.code = procs[p].input,
                         !.phase = 1,
                         !.pc = "mkdir"]]
    /\ UNCHANGED << tmpDirs, tmpFiles >>
    /\ UNCHANGED << toggleVars, runVars >>

\* a directory made under a name that may be in use
ConcMkdirTempAnyName(p) ==
    /\ procs[p].pc = "mkdir"
    /\ \E d \in DirNames :
          /\ tmpDirs' = tmpDirs \cup { d }
          /\ procs' = [procs EXCEPT ![p].td = d, ![p].pc = "createTemp"]
    /\ UNCHANGED tmpFiles
    /\ UNCHANGED << toggleVars, runVars >>

\* core.go 129: os.MkdirTemp makes a directory under a name that is not in
\* use
ConcMkdirTemp(p) ==
    /\ procs[p].pc = "mkdir"
    /\ \E d \in DirNames \ tmpDirs :
          /\ tmpDirs' = tmpDirs \cup { d }
          /\ procs' = [procs EXCEPT ![p].td = d, ![p].pc = "createTemp"]
    /\ UNCHANGED tmpFiles
    /\ UNCHANGED << toggleVars, runVars >>

\* core.go 135: os.CreateTemp makes an empty file in td under a name that is
\* not in use there
ConcCreateTemp(p) ==
    /\ procs[p].pc = "createTemp"
    /\ \E f \in FileNames :
          /\ << procs[p].td, f >> \notin DOMAIN tmpFiles
          /\ tmpFiles' = (<< procs[p].td, f >> :> << >>) @@ tmpFiles
          /\ procs' = [procs EXCEPT ![p].tf = f, ![p].pc = "write"]
    /\ UNCHANGED tmpDirs
    /\ UNCHANGED << toggleVars, runVars >>

\* core.go 141: tf.Write(code); a file that has been removed meanwhile is
\* written without a name
ConcWrite(p) ==
    /\ procs[p].pc = "write"
    /\ tmpFiles' = IF << procs[p].td, procs[p].tf >> \in DOMAIN tmpFiles
                   THEN [tmpFiles EXCEPT ![<< procs[p].td, procs[p].tf >>] =
                             procs[p].code]
                   ELSE tmpFiles
    /\ procs' = [procs EXCEPT ![p].pc = "build"]
    /\ UNCHANGED tmpDirs
    /\ UNCHANGED << toggleVars, runVars >>

\* core.go 142-144: the build reads the file named tf.Name()
ConcBuild(p) ==
    /\ procs[p].pc = "build"
    /\ LET name == << procs[p].td, procs[p].tf >>
           found == name \in DOMAIN tmpFiles
           content == IF found THEN tmpFiles[name] ELSE << >>
       IN  procs' = [procs EXCEPT
                        ![p].boutput = GoBuild(found, content),
                        ![p].reads = Append(@, [code |-> procs[p].code,
                                                found |-> found,
                                                content |-> content]),
                        ![p].pc = "parse"]
    /\ UNCHANGED << tmpDirs, tmpFiles >>
    /\ UNCHANGED << toggleVars, runVars >>

\* core.go 145-168 with the deferred os.RemoveAll(td), and what toggle does
\* with the result: after the first extraction the lines are commented and
\* the second is called (core.go 52-67), after the second the fake usages
\* are appended, the lines un-commented and the code returned (core.go 68-85)
ConcParse(p) ==
    /\ procs[p].pc = "parse"
    /\ tmpDirs' = tmpDirs \ { procs[p].td }
    /\ tmpFiles' = FilesOutside(procs[p].td)
    /\ LET me == procs[p]
           r == symbolsInfoFromOutput(
                    me.boutput,
                    IF me.phase = 1 THEN noProviderErrorRegexpSuffix
                    ELSE notUsedErrorRegexpSuffix)
           commented == commentLines(me.lines, r.info)
           marked == uncommentLines(appendFakeUsages(me.lines, r.info),
                                    me.commentedLinesNums)
       IN  procs' = [procs EXCEPT ![p] =
              IF r.err # "" \/ ~InRange(r.info, me.lines)
              THEN [@ EXCEPT !.td = 0, !.tf = 0, !.pc = "done",
                             !.ret = [nil |-> TRUE, code |-> << >>,
                                      err |-> "toggle: " \o r.err]]
              ELSE IF me.phase = 1
              THEN [@ EXCEPT !.td = 0, !.tf = 0,
                             !.lines = commented,
                             !.commentedLinesNums = lineNums(r.info),
                             !.code = Join(commented, NL),
                             !.phase = 2,
                             !.pc = "mkdir"]
              ELSE [@ EXCEPT !.td = 0, !.tf = 0,
                             !.lines = marked,
                             !.ret = [nil |-> FALSE, code |-> Join(marked, NL),
                                      err |-> ""],
                             !.pc = "done"]]
    /\ UNCHANGED << toggleVars, runVars >>

NextConc ==
    \E p \in Procs :
        \/ ConcToggle(p)
        \/ ConcMkdirTemp(p)
        \/ ConcCreateTemp(p)
        \/ ConcWrite(p)
        \/ ConcBuild(p)
        \/ ConcParse(p)

SpecConc == InitConc /\ [][NextConc]_vars

\* ================================================================== claims
Form == removeFakeUsages(input).form

\* toggle has returned without an error
Returned == pc = "done" /\ ret.err = "" /\ ~ret.nil

\* C1: for a source x that matches neither marker pattern and for which the
\* build reports at least one declared-and-not-used error, toggle(toggle(x))
\* returns exactly x.
C1_ToggleTwiceRestores ==
    (call = 2 /\ pc = "done" /\ prev.form = "none" /\ prev.notUsed >= 1)
        => (Returned /\ ret.code = prev.input)

\* the errors toggle can return when a temporary resource cannot be created
TempErrors ==
    { "toggle: getSymbolsInfoFromBuildErrors: in os.MkdirTemp",
      "toggle: getSymbolsInfoFromBuildErrors: in os.CreateTemp" }

\* C2 as claimed: for every source x whose build succeeds, toggle(x) returns
\* x byte-identical with a nil error (unless a temporary directory or file
\* could not be created for the build).
C2_BuildingSourceUnchanged ==
    (call = 1 /\ pc = "done" /\ xBuilds)
        => \/ Returned /\ ret.code = input
           \/ ret.nil /\ ret.err \in TempErrors

\* C2 amended: for every source x that matches neither marker pattern and
\* whose build succeeds, toggle(x) returns x byte-identical with a nil error
\* (unless a temporary directory or file could not be created).
C2_CleanSourceUnchanged ==
    (call = 1 /\ pc = "done" /\ xBuilds /\ Form = "none")
        => \/ Returned /\ ret.code = input
           \/ ret.nil /\ ret.err \in TempErrors

\* a source that builds went through both builds and came back
C2_Witness ==
    /\ call = 1 /\ Returned /\ xBuilds /\ Form = "none"
    /\ Len(builds) = 2 /\ boutput.ok /\ tf.content = << >> /\ ~tf.exists
    /\ builds[2].content = input
    /\ Len(Split(input, NL)) = 2

\* the lines of the build output that report a not-used variable
NotUsedLines(out) ==
    { k \in 1..Len(Split(out, NL)) :
        \E n \in 1..(MaxLines + 1) : Split(out, NL)[k] = DiagNotUsed(n) }

\* the text  ; _ = v /* TODO: gouse */
MarkerOfV == << ";", " ", "_", " ", "=", " ", "v", " ", "T" >>

\* C3: for a marker-free source whose build reports exactly one
\* declared-and-not-used error, for variable v on line L, toggle returns the
\* source with exactly  ; _ = v /* TODO: gouse */  appended to the end of
\* line L and every other line byte-identical.
C3_OneMarkerAppended ==
    (call = 1 /\ Returned /\ Form = "none" /\ phase = 2 /\ ~boutput.ok
     /\ Len(builds) > 0 /\ builds[Len(builds)].suffix = notUsedErrorRegexpSuffix
     /\ Cardinality(NotUsedLines(boutput.out)) = 1)
        => \E L \in 1..Len(Split(input, NL)) :
              /\ \E k \in NotUsedLines(boutput.out) :
                    Split(boutput.out, NL)[k] = DiagNotUsed(L)
              /\ ret.code = Join([Split(input, NL) EXCEPT ![L] = @ \o MarkerOfV], NL)

\* one not-used error on the second of two lines, the first of which was
\* commented out for the second build
C3_Witness ==
    /\ call = 1 /\ Returned /\ Form = "none" /\ phase = 2 /\ ~boutput.ok
    /\ boutput.out = Output(<< DiagNotUsed(2) >>).out
    /\ commentedLinesNums = << 0 >>
    /\ ret.code = Join([Split(input, NL) EXCEPT ![2] = @ \o MarkerOfV], NL)

\* the text  _ = v /* TODO: gouse */
ReflowedMarker == << "_", " ", "=", " ", "v", " ", "T" >>

\* index of the first token of the line that holds index p
LineStart(s, p) ==
    LET feeds == { k \in 1..(p - 1) : s[k] = NL }
    IN  IF feeds = {} THEN 1 ELSE (CHOOSE k \in feeds : \A j \in feeds : j <= k) + 1

\* index of the first token of the white space that ends right before p
SpaceStart(s, p) ==
    CHOOSE a \in 1..p :
        /\ \A k \in a..(p - 1) : IsSpace(s[k])
        /\ a = 1 \/ ~IsSpace(s[a - 1])

\* where s holds a reflowed marker on a line of its own (after indentation)
OwnLineMarkers(s) ==
    { p \in 1..Len(s) :
        /\ IsAt(s, p, ReflowedMarker)
        /\ \A k \in LineStart(s, p)..(p - 1) : s[k] \in {" ", "\t"}
        /\ p + Len(ReflowedMarker) > Len(s) \/ s[p + Len(ReflowedMarker)] = NL }

\* s without its tokens a..b
Cut(s, a, b) == SubSeq(s, 1, a - 1) \o SubSeq(s, b + 1, Len(s))

\* the source holds one marker comment, on a reflowed marker on its own line
OneReflowedMarker ==
    /\ Form = "gofmt"
    /\ Cardinality({ k \in 1..Len(input) : input[k] = "T" }) = 1
    /\ OwnLineMarkers(input) # {}

\* C4 as claimed: for a source with no canonical marker and a reflowed marker
\* _ = v /* TODO: gouse */ on its own line, toggle removes exactly that
\* construct (the marker's line: the line feed before it, its indentation
\* and the marker) and every byte outside it is unchanged.
C4_OnlyMarkerLineRemoved ==
    (pc = "done" /\ OneReflowedMarker)
        => \A p \in OwnLineMarkers(input) :
              /\ Returned
              /\ ret.code = Cut(input,
                                IF LineStart(input, p) > 1
                                THEN LineStart(input, p) - 1 ELSE 1,
                                p + Len(ReflowedMarker) - 1)

\* C4 amended: toggle removes the reflowed marker together with all the
\* white space that immediately precedes it (its indentation, the line feed
\* before it, and any blank lines and trailing blanks before that), and
\* every byte outside that is unchanged.
C4_MarkerAndSpaceBeforeRemoved ==
    (pc = "done" /\ OneReflowedMarker)
        => \A p \in OwnLineMarkers(input) :
              /\ Returned
              /\ ret.code = Cut(input, SpaceStart(input, p),
                                p + Len(ReflowedMarker) - 1)

\* a reflowed marker after a blank line: the blank line goes with it
C4_Witness ==
    /\ pc = "done" /\ OneReflowedMarker
    /\ input = << "v", NL, NL >> \o ReflowedMarker
    /\ ret.code = << "v" >>

\* where line l holds a canonical marker: the first prefix that has a suffix
\* after it, and the last suffix of the line
MarkerStart(l) ==
    { i \in 1..Len(l) :
        /\ IsAt(l, i, << ";", " ", "_", " ", "=" >>)
        /\ \E j \in (i + 5)..Len(l) : IsAt(l, j, << " ", "T" >>) }

Least(S) == CHOOSE i \in S : \A k \in S : i <= k
Greatest(S) == CHOOSE i \in S : \A k \in S : k <= i

WithoutCanonical(l) ==
    IF MarkerStart(l) = {} THEN l
    ELSE Cut(l, Least(MarkerStart(l)),
             Greatest({ j \in 1..Len(l) : IsAt(l, j, << " ", "T" >>) }) + 1)

\* C5: when the source holds a canonical marker, toggle deletes, on every
\* line that holds one, the text from the marker's `;` to the end of the
\* line's last marker comment, and returns: the post-format pattern is not
\* applied (a line without canonical marker is unchanged) and no `;` of a
\* removed marker is left.
C5_CanonicalFirst ==
    (pc = "done" /\ fakeUsageMatch(input))
        => /\ Returned
           /\ ret.code = Join([k \in 1..Len(Split(input, NL)) |->
                                  WithoutCanonical(Split(input, NL)[k])], NL)

\* a source with a canonical marker on line 1 and a reflowed one on line 2
C5_Witness ==
    /\ pc = "done"
    /\ input = << "v" >> \o MarkerOfV \o << NL >> \o ReflowedMarker
    /\ ret.code = << "v", NL >> \o ReflowedMarker

\* C6: whenever either marker pattern matches the input, toggle returns the
\* stripped text and the call ends without an extraction: no temporary
\* directory or file is created, no build is run, no line is commented and
\* no marker is added.
C6_RemovalEndsCall ==
    (Form # "none")
        => /\ pc \in {"toggle", "done"}
           /\ builds = << >> /\ made = [dirs |-> 0, files |-> 0]
           /\ ~td /\ ~tf.exists /\ phase = 0
           /\ lines = << >> /\ commentedLinesNums = << >>
           /\ importsWithoutProviderInfo = << >> /\ notUsedVarsInfo = << >>
           /\ pc = "done" =>
                 /\ Returned
                 /\ Len(ret.code) < Len(input)
                 /\ Form = "canonical" => ~fakeUsageMatch(ret.code)

\* the second toggle of a source that the first toggle marked
C6_Witness ==
    /\ call = 2 /\ pc = "done" /\ Form = "canonical" /\ prev.notUsed >= 1
    /\ builds = << >> /\ Returned

\* t repeated n times
RECURSIVE Repeat(_, _)
Repeat(t, n) == IF n = 0 THEN << >> ELSE t \o Repeat(t, n - 1)

\* how many of the import errors found name line k (counted from 1)
ImportErrorsOn(k) ==
    Cardinality({ i \in 1..Len(importsWithoutProviderInfo) :
                    importsWithoutProviderInfo[i].lineNum = k - 1 })

\* how many not-used errors of the build output name line k
NotUsedErrorsOn(out, k) ==
    Cardinality({ i \in 1..Len(Split(out, NL)) : Split(out, NL)[i] = DiagNotUsed(k) })

\* the last build was the one for not-used errors, and it failed
NotUsedBuildFailed ==
    /\ builds # << >>
    /\ builds[Len(builds)].suffix = notUsedErrorRegexpSuffix
    /\ ~boutput.ok

\* C7: when the raw input yields missing-provider errors, the extraction of
\* not-used errors runs only after every such line has been prefixed with
\* the comment token (once per error) and runs on that commented buffer;
\* every variable that build reports as not used has its marker at the end
\* of its line when the same call returns.
C7_NotUsedFoundOnCommentedCode ==
    /\ \A i \in 1..Len(builds) :
          builds[i].suffix = notUsedErrorRegexpSuffix
              => /\ i = Len(builds)
                 /\ \A j \in 1..(i - 1) :
                       builds[j].suffix = noProviderErrorRegexpSuffix
                 /\ builds[i].code =
                       Join([k \in 1..Len(Split(input, NL)) |->
                                Repeat(<< "/", "/", " " >>, ImportErrorsOn(k))
                                \o Split(input, NL)[k]], NL)
    /\ (Returned /\ Form = "none" /\ NotUsedBuildFailed)
          => \A k \in 1..Len(Split(input, NL)) :
                NotUsedErrorsOn(boutput.out, k) > 0
                    => Split(ret.code, NL)[k] =
                          Split(input, NL)[k]
                          \o Repeat(MarkerOfV, NotUsedErrorsOn(boutput.out, k))

\* line 1 was commented for the second build, which then reported the
\* variable of line 2
C7_Witness ==
    /\ Returned /\ call = 1 /\ Len(builds) = 2
    /\ importsWithoutProviderInfo # << >>
    /\ input = << "v", NL, "v" >>
    /\ builds[1].code = input /\ builds[2].code = << "/", "/", " " >> \o input
    /\ NotUsedBuildFailed /\ NotUsedErrorsOn(boutput.out, 2) = 1
    /\ ret.code = input \o MarkerOfV

\* C8: at the end of every successful detection pass, each line that was
\* comment-prefixed equals its original content followed only by the
\* markers appended to it, with no comment prefix remaining (also when the
\* line is named by an import error and a not-used error, or by several
\* import errors).
C8_CommentedLinesRestored ==
    (Returned /\ Form = "none")
        => \A k \in 1..Len(Split(input, NL)) :
              ImportErrorsOn(k) > 0
                  => \E n \in 0..MaxDiags :
                        Split(ret.code, NL)[k] =
                            Split(input, NL)[k] \o Repeat(MarkerOfV, n)

LineCount(c) == Len(Split(c, NL))

\* C9 as claimed: for every successful toggle call, in either direction, the
\* output has as many lines as the input.
C9_LineCountKept ==
    Returned => LineCount(ret.code) = LineCount(input)

\* C9 amended: a successful toggle call that adds markers or strips
\* canonical markers returns as many lines as it was given; one that strips
\* post-format markers returns the lines it was given less one for every
\* line feed deleted, hence never more.
C9_LineCountKeptOrReduced ==
    Returned =>
        /\ Form \in {"none", "canonical"} => LineCount(ret.code) = LineCount(input)
        /\ Form = "gofmt" =>
              /\ LineCount(ret.code) <= LineCount(input)
              /\ LineCount(input) - LineCount(ret.code)
                     = Cardinality({ k \in 1..Len(input) : input[k] = NL })
                       - Cardinality({ k \in 1..Len(ret.code) : ret.code[k] = NL })

\* markers added to two lines by the first call and stripped by the second
C9_Witness ==
    /\ call = 2 /\ Returned /\ Form = "canonical" /\ prev.notUsed = 2
    /\ prev.input = << "v", NL, "v" >>
    /\ LineCount(prev.input) = 2 /\ LineCount(input) = 2 /\ LineCount(ret.code) = 2
    /\ Len(input) = Len(prev.input) + 2 * Len(MarkerOfV)
    /\ ret.code = prev.input

\* what the extraction gave back to toggle
Extracted ==
    [info |-> IF phase = 1 THEN importsWithoutProviderInfo ELSE notUsedVarsInfo,
     err |-> ret.err]

ClassOfPhase ==
    IF phase = 1 THEN noProviderErrorRegexpSuffix ELSE notUsedErrorRegexpSuffix

\* a line that holds a position immediately followed by the class's message
IsOfClass(e, suffix) ==
    \E i \in 1..(Len(e) - 1) : e[i] \in {"P1", "P2", "PBIG"} /\ e[i + 1] = suffix

LinesOfClass(out, suffix) ==
    SelectSeq(Split(out, NL), LAMBDA e : IsOfClass(e, suffix))

\* C10: for a build output in which no line matches the selected class, the
\* extractor returns zero entries and a nil error, for each of the two
\* classes; in a mixed output the other lines are skipped and do not change
\* what the matching lines give.
C10_OtherLinesIgnored ==
    (pc # "parse" /\ ~boutput.ok)
        => /\ LinesOfClass(boutput.out, ClassOfPhase) = << >>
                 => Extracted = [info |-> << >>, err |-> ""]
           /\ LET alone == symbolsInfoFromOutput(
                               [ok |-> FALSE,
                                out |-> Join(LinesOfClass(boutput.out, ClassOfPhase), NL)],
                               ClassOfPhase)
              IN  /\ Extracted.info = alone.info
                  /\ Extracted.err = IF alone.err = "" THEN "" ELSE "toggle: " \o alone.err
                  /\ Len(alone.info) <= Len(LinesOfClass(boutput.out, ClassOfPhase))

\* a not-used error after a line of another kind
C10_Witness ==
    /\ pc = "append" /\ phase = 2 /\ ~boutput.ok
    /\ boutput.out = << "v", NL, "P2", "U", "v" >>
    /\ notUsedVarsInfo = << [name |-> << "v" >>, lineNum |-> 1] >>

\* the errors an extraction can end with, as toggle returns them
ExtractionErrors ==
    TempErrors \cup { "toggle: getSymbolsInfoFromBuildErrors: in strconv.Atoi" }

\* the class of the last build the call has run
LastSuffix == builds[Len(builds)].suffix

\* C11: if the cancellation token is already signaled when an extractor
\* invocation begins, the invocation returns an empty sequence and a nil
\* error without creating a temporary directory or file and without running
\* the build, and the phase that called it leaves the lines as they are.
C11_CancelledExtractionDoesNothing ==
    /\ [][(pc = "enter" /\ ctxDone)
             => /\ pc' = (IF phase = 1 THEN "comment" ELSE "append")
                /\ (IF phase = 1 THEN importsWithoutProviderInfo'
                                 ELSE notUsedVarsInfo') = << >>
                /\ ret' = ret /\ ret.err = ""
                /\ made' = made /\ td' = td /\ tf' = tf /\ ~td /\ ~tf.exists
                /\ builds' = builds /\ boutput' = boutput
                /\ lines' = lines]_vars
    /\ [][(pc = "comment" /\ importsWithoutProviderInfo = << >>)
             => lines' = lines /\ code' = Join(lines, NL)]_vars
    /\ [][(pc = "append" /\ notUsedVarsInfo = << >>) => lines' = lines]_vars

\* the signal came between the two extractions: the second one did nothing
\* and the call went on to append no fake usage
C11_Witness ==
    /\ ctxDone /\ pc = "uncomment" /\ phase = 2
    /\ made = [dirs |-> 1, files |-> 1] /\ Len(builds) = 1
    /\ commentedLinesNums # << >> /\ notUsedVarsInfo = << >>
    /\ lines = commentLines(Split(input, NL), importsWithoutProviderInfo)

\* C12: if either extractor invocation fails (a temporary resource cannot be
\* created, or a line field does not parse), toggle returns nil together
\* with an error that names the operation; toggle goes on past an extraction
\* only if it did not fail, so a failure of the second never returns the
\* lines with their comment prefixes and a failure of the first keeps the
\* second from running.
C12_ExtractionFailureEndsToggle ==
    /\ (pc = "done" /\ ret.err # "")
          => /\ ret.nil /\ ret.code = << >>
             /\ ret.err \in ExtractionErrors
             /\ phase = 1 => /\ Len(builds) <= 1 /\ made.dirs <= 1
                             /\ commentedLinesNums = << >>
                             /\ notUsedVarsInfo = << >>
    /\ (pc = "done" /\ ret.err = "") => ~ret.nil
    /\ (builds # << >> /\ pc \notin {"build", "parse"})
          => LET r == symbolsInfoFromOutput(boutput, LastSuffix)
             IN  IF r.err # ""
                 THEN pc = "done" /\ ret.nil /\ ret.err = "toggle: " \o r.err
                 ELSE pc = "done" => ret.err \in {""} \cup TempErrors

\* the first extraction found an import error, its line was commented out,
\* and the second extraction met a line field that does not parse
C12_Witness ==
    /\ pc = "done" /\ phase = 2 /\ call = 1
    /\ ret = [nil |-> TRUE, code |-> << >>,
              err |-> "toggle: getSymbolsInfoFromBuildErrors: in strconv.Atoi"]
    /\ commentedLinesNums # << >>
    /\ IsAt(lines[commentedLinesNums[1] + 1], 1, commentPrefix)
    /\ Len(builds) = 2

\* C13 as claimed: the extractor fails with an IOError when the temporary
\* directory cannot be created, when the temporary file cannot be created,
\* and when the code cannot be written to the temporary file; toggle returns
\* that failure.  (A step of the extractor from "enter", "createTemp" or
\* "build" either has done its work or has ended toggle with the error.)
C13_WriteFailureIsError ==
    /\ [][(pc = "enter" /\ ~ctxDone /\ pc' # pc)
             => \/ td' /\ pc' = "createTemp"
                \/ /\ pc' = "done" /\ ret'.nil
                   /\ ret'.err = "toggle: getSymbolsInfoFromBuildErrors: in os.MkdirTemp"]_vars
    /\ [][(pc = "createTemp" /\ pc' # pc)
             => \/ tf'.exists /\ pc' = "build"
                \/ /\ pc' = "done" /\ ret'.nil
                   /\ ret'.err = "toggle: getSymbolsInfoFromBuildErrors: in os.CreateTemp"]_vars
    /\ [][(pc = "build" /\ pc' # pc)
             => \/ tf'.content = code /\ pc' = "parse"
                \/ pc' = "done" /\ ret'.nil /\ ret'.err # ""]_vars

\* C14 as claimed: when the build command cannot be started, toggle returns
\* an error; and the build is not retried: every build of a call has its own
\* extractor invocation (its own temporary directory and file).
C14_BuildStartFailureIsError ==
    /\ (boutput = NotStarted /\ builds # << >> /\ pc # "parse")
          => pc = "done" /\ ret.nil /\ ret.err # ""
    /\ Len(builds) <= made.files /\ made.files <= made.dirs /\ made.dirs <= 2

\* C15: on every exit path of an extractor invocation that created a
\* temporary directory (the build succeeded, diagnostics were parsed, the
\* temporary file could not be created, a line field did not parse) the
\* directory and the file in it are removed when the invocation returns:
\* they exist only inside an invocation, and none exists once toggle has
\* returned.
C15_TempDirRemoved ==
    /\ pc \notin {"createTemp", "build", "parse"} => ~td /\ ~tf.exists
    /\ pc = "createTemp" => td /\ ~tf.exists
    /\ pc \in {"build", "parse"} => td /\ tf.exists
    /\ tf.exists => td

\* the call made two directories, the second extraction ended on a line
\* field that does not parse, and nothing is left
C15_Witness ==
    /\ pc = "done" /\ made = [dirs |-> 2, files |-> 2]
    /\ ret.err = "toggle: getSymbolsInfoFromBuildErrors: in strconv.Atoi"
    /\ ~td /\ ~tf.exists

\* where line e holds a position immediately followed by the class's message:
\* the leftmost such place
MatchedAt(e, suffix) ==
    Least({ i \in 1..(Len(e) - 1) : IsPos(e[i]) /\ e[i + 1] = suffix })

\* the reference's entry for a matching line: the line field of the matched
\* position less one, and the text that follows the matched message
ReferenceEntry(e, suffix) ==
    [name |-> SubSeq(e, MatchedAt(e, suffix) + 2, Len(e)),
     lineNum |-> PosLine[e[MatchedAt(e, suffix)]] - 1]

\* the reference for a whole output: one entry per matching line, in the
\* order of the lines, and a ParseError if a matched line field does not
\* parse
Reference(out, suffix) ==
    LET ms == LinesOfClass(out, suffix)
    IN  IF \E k \in 1..Len(ms) : ms[k][MatchedAt(ms[k], suffix)] = "PBIG"
        THEN [info |-> << >>,
              err |-> "toggle: getSymbolsInfoFromBuildErrors: in strconv.Atoi"]
        ELSE [info |-> [k \in 1..Len(ms) |-> ReferenceEntry(ms[k], suffix)],
              err |-> ""]

\* C20 as claimed: for every captured output of a failed build, the
\* extractor's result equals the reference: the lines that hold a position
\* immediately followed by the class's message, in their order, each mapped
\* to (name = the text next to the message, lineNum = the position's line
\* field - 1), neither sorted nor de-duplicated.
C20_ExtractionEqualsReference ==
    (pc # "parse" /\ ~boutput.ok)
        => Extracted = Reference(boutput.out, ClassOfPhase)

\* run has printed exactly msg through errorLog and returned 1
FailedWith(msg) == exit = 1 /\ stderr = << errorLogPrefix \o msg >>

\* nothing has been read, written, opened or toggled
NothingDone ==
    /\ ~stdinRead /\ stdout = << >> /\ opened = << >> /\ calls = << >>
    /\ files = files0 /\ fileCode = << >> /\ inFile = NoHandle

\* C17 as claimed: when run is called with the -w flag and no paths, it
\* reports the error 'cannot use -w flag with standard input', returns exit
\* code 1, and neither reads standard input, writes standard output, nor
\* invokes toggle.
C17_WriteWithoutPathsFails ==
    (args.w /\ args.paths = << >>)
        => /\ NothingDone
           /\ rpc = "exit" => FailedWith(errCannotWriteToStdin)

\* C17 amended: when run is called with the -w flag and no paths, with
\* arguments that parse and without the -v flag, it reports that error,
\* returns exit code 1, and neither reads standard input, writes standard
\* output, nor invokes toggle.
C17_WriteWithoutPathsFailsUnlessVersion ==
    (args.w /\ args.paths = << >> /\ args.flagErr = "" /\ ~args.v)
        => /\ NothingDone
           /\ rpc = "exit" => FailedWith(errCannotWriteToStdin)

\* run has returned 1 for -w alone, with standard input waiting
C17_Witness ==
    /\ args = [flagErr |-> "", v |-> FALSE, w |-> TRUE, paths |-> << >>]
    /\ rpc = "exit" /\ exit = 1 /\ stdin = << "v", NL, "v" >>
    /\ stderr = << "error: cannot use '-w' flag with standard input" >>

\* C18 as claimed: when more than one path is given without the -w flag,
\* run reports the error 'must use -w flag with more than one path' and
\* returns exit code 1 before opening, toggling or modifying any of the
\* files.
C18_PathsWithoutWriteFail ==
    (~args.w /\ Len(args.paths) > 1)
        => /\ NothingDone
           /\ rpc = "exit" => FailedWith(errMustWriteToFiles)

\* C18 amended: when more than one path is given without the -w flag, with
\* arguments that parse and without the -v flag, run reports that error and
\* returns exit code 1 before opening, toggling or modifying any of the
\* files.
C18_PathsWithoutWriteFailUnlessVersion ==
    (~args.w /\ Len(args.paths) > 1 /\ args.flagErr = "" /\ ~args.v)
        => /\ NothingDone
           /\ rpc = "exit" => FailedWith(errMustWriteToFiles)

\* run has returned 1 for two paths that name files
C18_Witness ==
    /\ args = [flagErr |-> "", v |-> FALSE, w |-> FALSE, paths |-> << "a", "b" >>]
    /\ rpc = "exit" /\ exit = 1
    /\ stderr = << "error: must use '-w' flag with more than one path" >>
    /\ files = files0

\* the last of the first n paths that names p, or 0
LastCallOn(p, n) ==
    IF { k \in 1..n : conf.paths[k] = p } = {} THEN 0
    ELSE Greatest({ k \in 1..n : conf.paths[k] = p })

\* what the file of the k-th path held when its turn came
ContentBefore(k) ==
    IF LastCallOn(conf.paths[k], k - 1) = 0 THEN files0[conf.paths[k]]
    ELSE calls[LastCallOn(conf.paths[k], k - 1)].ret.code

\* C19: with -w, after toggleFile succeeds on a path the file's content is
\* exactly toggle(previous content), with no byte of the previous content
\* left even when the toggled text is shorter; when the same path is listed
\* twice the file ends as toggle(toggle(original content)).  (Between two
\* paths and at the end: every path so far had one toggle call, on what its
\* file then held, and every file holds what the last call on it returned.)
C19_FileHoldsToggledContent ==
    (OutIsIn /\ pathIdx >= 1 /\ (rpc = "open" \/ (rpc = "exit" /\ exit = 0)))
        => /\ Len(calls) = pathIdx - 1
           /\ opened = SubSeq(conf.paths, 1, pathIdx - 1)
           /\ \A k \in 1..(pathIdx - 1) :
                 /\ calls[k].code = ContentBefore(k)
                 /\ calls[k].ret \in ToggleOutcomes(ContentBefore(k))
                 /\ calls[k].ret.err = ""
           /\ \A p \in Paths :
                 files[p] = IF LastCallOn(p, pathIdx - 1) = 0 THEN files0[p]
                            ELSE calls[LastCallOn(p, pathIdx - 1)].ret.code

\* gouse -w a a: the first call appended a fake usage, the second removed
\* it, and the file holds the shorter text
C19_Witness ==
    /\ rpc = "exit" /\ exit = 0
    /\ args = [flagErr |-> "", v |-> FALSE, w |-> TRUE, paths |-> << "a", "a" >>]
    /\ files0["a"] = << "v" >>
    /\ calls[1].ret.code = << "v" >> \o MarkerOfV
    /\ calls[2].code = << "v" >> \o MarkerOfV
    /\ files["a"] = << "v" >>
    /\ files["b"] = files0["b"]

\* C16: for any interleaving of concurrent toggle calls over distinct
\* inputs, each extractor invocation uses its own freshly created temporary
\* directory and file: no two calls hold the same directory, the file a
\* call has written holds its code until its build has read it, every build
\* has read exactly the code its invocation wrote, and each call returns
\* what it returns when run alone.
C16_ConcurrentCallsDoNotInterfere ==
    /\ \A p, q \in Procs :
          (p # q /\ procs[p].td # 0 /\ procs[q].td # 0)
              => procs[p].td # procs[q].td
    /\ \A p \in Procs :
          /\ procs[p].td # 0 <=> procs[p].pc \in {"createTemp", "write", "build", "parse"}
          /\ procs[p].td # 0 => procs[p].td \in tmpDirs
          /\ procs[p].pc \in {"write", "build", "parse"}
                => << procs[p].td, procs[p].tf >> \in DOMAIN tmpFiles
          /\ procs[p].pc \in {"build", "parse"}
                => tmpFiles[<< procs[p].td, procs[p].tf >>] = procs[p].code
          /\ \A k \in 1..Len(procs[p].reads) :
                procs[p].reads[k].found
                    /\ procs[p].reads[k].content = procs[p].reads[k].code
          /\ procs[p].pc = "done"
                => procs[p].ret = [nil |-> FALSE,
                                   code |-> ToggleAlone(procs[p].input),
                                   err |-> ""]
    /\ { x[1] : x \in DOMAIN tmpFiles } \subseteq tmpDirs
    /\ Cardinality(tmpDirs) = Cardinality({ p \in Procs : procs[p].td # 0 })

\* two calls, both in their second extraction with the file written, one in
\* directory 1 and one in directory 2, on sources that each need both builds
C16_Witness ==
    /\ procs[1].pc = "build" /\ procs[2].pc = "build"
    /\ procs[1].phase = 2 /\ procs[2].phase = 2
    /\ procs[1].td # procs[2].td
    /\ procs[1].input = << "w", NL, "v" >>
    /\ procs[2].input = << "v", NL, "w" >>
    /\ tmpFiles[<< procs[1].td, procs[1].tf >>] = << "/", "/", " ", "w", NL, "v" >>
    /\ tmpFiles[<< procs[2].td, procs[2].tf >>] = << "v", NL, "/", "/", " ", "w" >>

\* the first extraction built and gave import errors, and the second found
\* ctx.Done() closed at its entry: it made no directory and gave no error
CancelledBetweenExtractions ==
    /\ ctxDone /\ phase = 2 /\ pc \in {"append", "uncomment", "done"}
    /\ importsWithoutProviderInfo # << >>
    /\ made = [dirs |-> 1, files |-> 1] /\ Len(builds) = 1
    /\ ret.err = ""

\* C21 as claimed: if the cancellation token becomes signaled after the
\* first (import-provider) extraction has returned diagnostics and before
\* the second extraction begins, toggle returns exactly the input text with
\* a nil error: every comment prefix inserted in the first phase is removed
\* again and no marker is added.
C21_CancelledCallReturnsInput ==
    (CancelledBetweenExtractions /\ pc = "done")
        => Returned /\ ret.code = input

\* C22 as claimed: every line number that toggle uses to index the line
\* buffer is within the buffer: for every diagnostic returned by either
\* extraction on a source of N lines, 0 <= lineNum < N, so toggle never
\* indexes out of range.
C22_LineNumbersInRange ==
    /\ pc # "panic"
    /\ InRange(importsWithoutProviderInfo, Split(input, NL))
    /\ InRange(notUsedVarsInfo, Split(input, NL))

\* what run prints when io.ReadAll or toggle has failed inside toggleFile
ReadOrToggleErrors ==
    { errorLogPrefix \o "toggleFile: in io.ReadAll",
      errorLogPrefix \o "toggleFile: toggle: getSymbolsInfoFromBuildErrors" }

\* run has ended on such a failure
ReadOrToggleFailed ==
    /\ rpc = "exit" /\ stderr # << >>
    /\ stderr[Len(stderr)] \in ReadOrToggleErrors

\* C23: if reading the input or toggle fails inside toggleFile, the output
\* is left untouched: no seek, no truncate and no write is done, so with -w
\* the file keeps its previous content (and every file holds what it held
\* when this toggleFile call began), and run stops with exit code 1 without
\* opening any later path.
C23_FailureLeavesOutputUntouched ==
    ReadOrToggleFailed
        => /\ exit = 1 /\ Len(stderr) = 1
           /\ stdout = << >>
           /\ inFile.off \in {0, Len(InContent)}
           /\ inFile.off = 0 <=> stderr[1] = errorLogPrefix \o "toggleFile: in io.ReadAll"
           /\ IF Len(conf.paths) = 0
              THEN files = files0 /\ opened = << >> /\ inFile.name = "stdin"
              ELSE /\ opened = SubSeq(conf.paths, 1, pathIdx)
                   /\ inFile.name = conf.paths[pathIdx]
                   /\ files[conf.paths[pathIdx]] = ContentBefore(pathIdx)
                   /\ \A p \in Paths :
                         files[p] = IF LastCallOn(p, pathIdx - 1) = 0 THEN files0[p]
                                    ELSE calls[LastCallOn(p, pathIdx - 1)].ret.code

\* gouse -w a b: toggle failed on a, whose file holds what it held, and b
\* was never opened
C23_Witness ==
    /\ ReadOrToggleFailed /\ exit = 1
    /\ args = [flagErr |-> "", v |-> FALSE, w |-> TRUE, paths |-> << "a", "b" >>]
    /\ pathIdx = 1 /\ opened = << "a" >>
    /\ Len(calls) = 1 /\ calls[1].code = files0["a"] /\ calls[1].ret.err # ""
    /\ inFile = [name |-> "a", off |-> Len(files0["a"])]
    /\ files = files0 /\ files["a"] = << "v", NL, "v" >>

\* where a marker  ; _ = <name> /* TODO: gouse */  that begins at index i of
\* s ends (<name> an identifier), or 0
MarkerEndAt(s, i) ==
    LET from == i + Len(fakeUsagePrefix) + 1
        to == SkipWord(s, from)
    IN  IF /\ IsAt(s, i, fakeUsagePrefix \o << " " >>)
           /\ to > from
           /\ IsAt(s, to, fakeUsageSuffix)
        THEN to + Len(fakeUsageSuffix) - 1
        ELSE 0

\* s from index i on, without its markers
RECURSIVE StripMarkersFrom(_, _)
StripMarkersFrom(s, i) ==
    IF i > Len(s) THEN << >>
    ELSE IF MarkerEndAt(s, i) # 0 THEN StripMarkersFrom(s, MarkerEndAt(s, i) + 1)
    ELSE << s[i] >> \o StripMarkersFrom(s, i + 1)

\* C24 as claimed: canonical stripping deletes only marker text: for every
\* input that matches the canonical pattern, each deleted span is one marker
\* of the form  ; _ = <name> /* TODO: gouse */ , and every byte of the input
\* that is not part of such a marker (code between two markers on one line,
\* or after a `; _ =` written by the user) is unchanged in the output.
C24_OnlyMarkersDeleted ==
    (pc = "done" /\ Form = "canonical")
        => Returned /\ ret.code = StripMarkersFrom(input, 1)

====
